---- MODULE Spec2Model ----
(***************************************************************************)
(* A model of the OpenAI provider adapter (OpenAIProvider.execute and      *)
(* OpenAIProvider.executeStream): credential resolution and validation,    *)
(* client construction, model selection, outbound mapping, the vendor      *)
(* call, inbound mapping, and the reassembly of streamed fragments into    *)
(* stream chunks.                                                          *)
(***************************************************************************)
EXTENDS Naturals, Sequences, FiniteSets, TLC

(***************************************************************************)
(* Bounds of the model.                                                    *)
(***************************************************************************)
\* Longest fragment sequence one stream consumes under SpecStream.
MaxFragments == 4
\* Longest fragment sequence one stream consumes under Spec.
MaxFacadeFragments == 2
\* Longest fragment sequence each of the two streams consumes under SpecConc.
MaxConcFragments == 3

\* The invocations: at most two run at the same time.
Calls == {1, 2}

(***************************************************************************)
(* JavaScript values.  A string-typed value that may be absent is a string *)
(* or Undefined; `x || y` and `if (x)` treat Undefined and '' alike.       *)
(***************************************************************************)
Undefined == "<undefined>"

Falsy(s) == s = Undefined \/ s = ""

\* a || b on strings
OrElse(a, b) == IF Falsy(a) THEN b ELSE a

(***************************************************************************)
(* Stream chunks (the StreamChunk interface).                              *)
(***************************************************************************)
TextChunk(text) == [type |-> "text", text |-> text]

StartChunk(id, index, name) ==
    [type |-> "tool_call_start", toolCall |-> [id |-> id, index |-> index, name |-> name]]

DeltaChunk(index, argumentsDelta) ==
    [type |-> "tool_call_delta",
     toolCall |-> [index |-> index, argumentsDelta |-> argumentsDelta]]

EndChunk(id, index, name) ==
    [type |-> "tool_call_end", toolCall |-> [id |-> id, index |-> index, name |-> name]]

UsageChunk(inputTokens, outputTokens) ==
    [type |-> "usage", usage |-> [inputTokens |-> inputTokens, outputTokens |-> outputTokens]]

DoneChunk == [type |-> "done"]

(***************************************************************************)
(* Vendor stream fragments (ChatCompletionChunk).  shape tells whether     *)
(* chunk.choices[0] exists ("choice"), chunk.choices is empty ("nochoice") *)
(* or chunk.choices is missing ("malformed": reading choices[0] throws).   *)
(***************************************************************************)
NoUsage == [present |-> FALSE, prompt_tokens |-> 0, completion_tokens |-> 0]

VendorUsage(p, q) == [present |-> TRUE, prompt_tokens |-> p, completion_tokens |-> q]

\* One element of delta.tool_calls; name and arguments are tc.function?.name
\* and tc.function?.arguments.
ToolCallFragment(index, id, name, arguments) ==
    [index |-> index, id |-> id, name |-> name, arguments |-> arguments]

Fragment(shape, content, tool_calls, finish_reason, usage) ==
    [shape |-> shape, content |-> content, tool_calls |-> tool_calls,
     finish_reason |-> finish_reason, usage |-> usage]

(***************************************************************************)
(* toolCallsInProgress: a JavaScript Map from index to {id, name,          *)
(* arguments}.  A Map iterates in insertion order and set() on a present   *)
(* key keeps the key's place, so the map is a sequence of entries with     *)
(* pairwise distinct indexes.                                              *)
(***************************************************************************)
EmptyMap == << >>

MapHas(map, index) == \E k \in 1..Len(map) : map[k].index = index

MapPos(map, index) == CHOOSE k \in 1..Len(map) : map[k].index = index

MapGet(map, index) == map[MapPos(map, index)]

MapSet(map, index, id, name, arguments) ==
    LET entry == [index |-> index, id |-> id, name |-> name, arguments |-> arguments]
    IN  IF MapHas(map, index)
        THEN [map EXCEPT ![MapPos(map, index)] = entry]
        ELSE Append(map, entry)

(***************************************************************************)
(* The body of `for (const tc of delta.tool_calls)`: each step yields the  *)
(* map after the tool-call fragment and the chunks it produced.            *)
(***************************************************************************)
\* if (tc.id) { toolCallsInProgress.set(...); yield tool_call_start }
StartToolCall_always(map, tc) ==
    [map    |-> MapSet(map, tc.index, tc.id, OrElse(tc.name, ""), ""),
     chunks |-> << StartChunk(tc.id, tc.index, tc.name) >>]

\* A start that keeps what an entry already at the index had accumulated.
StartToolCall_keepArguments(map, tc) ==
    IF ~Falsy(tc.id)
    THEN [map    |-> MapSet(map, tc.index, tc.id, OrElse(tc.name, ""),
                            IF MapHas(map, tc.index) THEN MapGet(map, tc.index).arguments
                            ELSE ""),
          chunks |-> << StartChunk(tc.id, tc.index, tc.name) >>]
    ELSE [map |-> map, chunks |-> << >>]

StartToolCall(map, tc) ==
    IF ~Falsy(tc.id)
    THEN [map    |-> MapSet(map, tc.index, tc.id, OrElse(tc.name, ""), ""),
          chunks |-> << StartChunk(tc.id, tc.index, tc.name) >>]
    ELSE [map |-> map, chunks |-> << >>]

\* if (tc.function?.arguments) { const toolCall = get(index); if (toolCall) {...} }
AppendArguments_unguarded(map, tc) ==
    IF ~Falsy(tc.arguments)
    THEN [map    |-> IF MapHas(map, tc.index)
                     THEN LET e == MapGet(map, tc.index)
                          IN  MapSet(map, tc.index, e.id, e.name, e.arguments \o tc.arguments)
                     ELSE map,
          chunks |-> << DeltaChunk(tc.index, tc.arguments) >>]
    ELSE [map |-> map, chunks |-> << >>]

AppendArguments_accumulated(map, tc) ==
    IF ~Falsy(tc.arguments) /\ MapHas(map, tc.index)
    THEN LET e == MapGet(map, tc.index)
         IN  [map    |-> MapSet(map, tc.index, e.id, e.name, e.arguments \o tc.arguments),
              chunks |-> << DeltaChunk(tc.index, e.arguments \o tc.arguments) >>]
    ELSE [map |-> map, chunks |-> << >>]

AppendArguments(map, tc) ==
    IF ~Falsy(tc.arguments) /\ MapHas(map, tc.index)
    THEN LET e == MapGet(map, tc.index)
         IN  [map    |-> MapSet(map, tc.index, e.id, e.name, e.arguments \o tc.arguments),
              chunks |-> << DeltaChunk(tc.index, tc.arguments) >>]
    ELSE [map |-> map, chunks |-> << >>]

ProcessToolCall(map, tc) ==
    LET s == StartToolCall(map, tc)
        d == AppendArguments(s.map, tc)
    IN  [map |-> d.map, chunks |-> s.chunks \o d.chunks]

RECURSIVE ProcessToolCalls(_, _)
ProcessToolCalls(map, tcs) ==
    IF tcs = << >>
    THEN [map |-> map, chunks |-> << >>]
    ELSE LET h == ProcessToolCall(map, Head(tcs))
             t == ProcessToolCalls(h.map, Tail(tcs))
         IN  [map |-> t.map, chunks |-> h.chunks \o t.chunks]

\* if (delta?.content) yield text
TextChunks(frag) ==
    IF frag.shape = "choice" /\ ~Falsy(frag.content)
    THEN << TextChunk(frag.content) >>
    ELSE << >>

\* if (finish_reason === 'tool_calls') for (const [index, toolCall] of map) yield end
EndChunks_firstOnly(map, frag) ==
    IF frag.shape = "choice" /\ frag.finish_reason = "tool_calls" /\ map # << >>
    THEN << EndChunk(map[1].id, map[1].index, map[1].name) >>
    ELSE << >>

EndChunks(map, frag) ==
    IF frag.shape = "choice" /\ frag.finish_reason = "tool_calls"
    THEN [k \in 1..Len(map) |-> EndChunk(map[k].id, map[k].index, map[k].name)]
    ELSE << >>

\* if (chunk.usage) yield usage
UsageChunks(frag) ==
    IF frag.usage.present
    THEN << UsageChunk(frag.usage.prompt_tokens, frag.usage.completion_tokens) >>
    ELSE << >>

\* One iteration of `for await (const chunk of stream)`.  threw: reading
\* chunk.choices[0] of a fragment without choices raises a TypeError before
\* anything is yielded for the fragment.
ProcessFragment(map, frag) ==
    IF frag.shape = "malformed"
    THEN [map |-> map, chunks |-> << >>, threw |-> TRUE]
    ELSE LET tcs == IF frag.shape = "choice" THEN frag.tool_calls ELSE << >>
             t   == ProcessToolCalls(map, tcs)
         IN  [map    |-> t.map,
              chunks |-> TextChunks(frag) \o t.chunks \o EndChunks(t.map, frag)
                           \o UsageChunks(frag),
              threw  |-> FALSE]

(***************************************************************************)
(* Credentials.  A key is absent (not present) or a string; of a string    *)
(* the model keeps what the validator reads: whether it is empty, whether  *)
(* it starts with "sk-", how many characters follow "sk-" and whether all  *)
(* of them are in [a-zA-Z0-9_-].  ("proj-" is made of such characters, so  *)
(* the optional group of the pattern adds no further keys.)                *)
(***************************************************************************)
\* {20,} in /^sk-(proj-)?[a-zA-Z0-9_-]{20,}$/
MinKeyLength == 20

NoKey == [present |-> FALSE, sk |-> FALSE, rest |-> 0, restOk |-> FALSE]

EmptyKey == [present |-> TRUE, sk |-> FALSE, rest |-> 0, restOk |-> TRUE]

\* "sk-" followed by `rest` characters
SkKey(rest, restOk) == [present |-> TRUE, sk |-> TRUE, rest |-> rest, restOk |-> restOk]

\* a non-empty string that does not start with "sk-"
ForeignKey == [present |-> TRUE, sk |-> FALSE, rest |-> 24, restOk |-> TRUE]

\* !apiKey
KeyFalsy(k) == ~k.present \/ (~k.sk /\ k.rest = 0)

\* options.apiKey || process.env.OPENAI_API_KEY
ResolveKey(optionsKey, envKey) == IF KeyFalsy(optionsKey) THEN envKey ELSE optionsKey

\* validator: (key) => /^sk-(proj-)?[a-zA-Z0-9_-]{20,}$/.test(key)
validator(k) == k.present /\ k.sk /\ k.restOk /\ k.rest >= MinKeyLength

\* The two checks that precede the try block: the error they throw, or "ok".
CredentialCheck_unchecked(apiKey) == "ok"

CredentialCheck(apiKey) ==
    IF KeyFalsy(apiKey) THEN "MissingCredential"
    ELSE IF ~validator(apiKey) THEN "InvalidCredential"
    ELSE "ok"

(***************************************************************************)
(* Errors.  The credential errors are plain Error objects thrown before    *)
(* the try block; every error caught by the try block leaves as            *)
(* createSafeError(error, {provider: 'openai'}).                           *)
(***************************************************************************)
CredentialError(which) == [kind |-> which, provider |-> "", cause |-> ""]

createSafeError(error, provider) == [kind |-> "SafeError", provider |-> provider, cause |-> error]

\* catch (error) { throw createSafeError(error as Error, { provider: 'openai' }) }
Rethrow_raw(error) == [kind |-> "RawError", provider |-> "", cause |-> error]

Rethrow(error) == createSafeError(error, "openai")

(***************************************************************************)
(* Message content: a string, an array of strings, or null.                *)
(***************************************************************************)
Str(s) == [t |-> "string", s |-> s, a |-> << >>]

Arr(a) == [t |-> "array", s |-> "", a |-> a]

Null == [t |-> "null", s |-> "", a |-> << >>]

Quote(s) == "\"" \o s \o "\""

RECURSIVE JoinQuoted(_)
JoinQuoted(a) ==
    IF a = << >> THEN ""
    ELSE IF Len(a) = 1 THEN Quote(a[1])
    ELSE Quote(a[1]) \o "," \o JoinQuoted(Tail(a))

\* JSON.stringify of a content value (strings here hold no character that
\* JSON escapes).
JSONStringify(content) ==
    CASE content.t = "null"   -> "null"
      [] content.t = "array"  -> "[" \o JoinQuoted(content.a) \o "]"
      [] content.t = "string" -> Quote(content.s)

\* typeof msg.content === 'string' ? msg.content : JSON.stringify(msg.content)
CoerceContent_asIs(content) == content

CoerceContent(content) ==
    IF content.t = "string" THEN content ELSE Str(JSONStringify(content))

(***************************************************************************)
(* Neutral messages and tools.  tool_calls and tools are absent or an      *)
(* array; an empty array is truthy.                                        *)
(***************************************************************************)
Absent == [present |-> FALSE, list |-> << >>]

List(l) == [present |-> TRUE, list |-> l]

Message(role, content, name, tool_call_id, tool_calls) ==
    [role |-> role, content |-> content, name |-> name,
     tool_call_id |-> tool_call_id, tool_calls |-> tool_calls]

ToolDefinition(name, description, parameters) ==
    [name |-> name, description |-> description, parameters |-> parameters]

\* A vendor message: the fields a branch does not set are Undefined / Absent.
VendorMessage(role, content, name, tool_call_id, tool_calls) ==
    [role |-> role, content |-> content, name |-> name,
     tool_call_id |-> tool_call_id, tool_calls |-> tool_calls]

\* request.messages.map(...) of execute
MapMessageExecute_roleKept(msg) ==
    IF msg.role = "tool"
    THEN VendorMessage("tool", CoerceContent(msg.content), Undefined,
                       OrElse(msg.tool_call_id, ""), Absent)
    ELSE IF msg.role = "assistant" /\ msg.tool_calls.present
    THEN VendorMessage("assistant", msg.content, Undefined, Undefined, msg.tool_calls)
    ELSE VendorMessage(msg.role, CoerceContent(msg.content), msg.name, Undefined, Absent)

MapMessageExecute(msg) ==
    IF msg.role = "tool"
    THEN VendorMessage("tool", CoerceContent(msg.content), Undefined,
                       OrElse(msg.tool_call_id, ""), Absent)
    ELSE IF msg.role = "assistant" /\ msg.tool_calls.present
    THEN VendorMessage("assistant", msg.content, Undefined, Undefined, msg.tool_calls)
    ELSE VendorMessage(IF msg.role = "developer" THEN "system" ELSE msg.role,
                       CoerceContent(msg.content), msg.name, Undefined, Absent)

\* request.messages.map(...) of executeStream
MapMessageStream(msg) ==
    IF msg.role = "tool"
    THEN VendorMessage("tool", CoerceContent(msg.content), Undefined,
                       OrElse(msg.tool_call_id, ""), Absent)
    ELSE IF msg.role = "assistant" /\ msg.tool_calls.present
    THEN VendorMessage("assistant", msg.content, Undefined, Undefined, msg.tool_calls)
    ELSE VendorMessage(IF msg.role = "developer" THEN "system" ELSE msg.role,
                       CoerceContent(msg.content), msg.name, Undefined, Absent)

\* request.messages.map(...) of execute in src/index.ts: no tool branches
MapMessageIndex(msg) ==
    VendorMessage(IF msg.role = "developer" THEN "system" ELSE msg.role,
                  CoerceContent(msg.content), msg.name, Undefined, Absent)

\* tools.map(tool => ({type: 'function', function: {name, description, parameters}}))
MapTool(tool) ==
    [type |-> "function",
     function |-> [name |-> tool.name, description |-> tool.description,
                   parameters |-> tool.parameters]]

\* let openaiTools; if (request.tools && request.tools.length > 0) openaiTools = ...
MapTools(tools) ==
    IF tools.present /\ Len(tools.list) > 0
    THEN List([k \in 1..Len(tools.list) |-> MapTool(tools.list[k])])
    ELSE Absent

(***************************************************************************)
(* Setup: the client handle, the effective model and the vendor request,   *)
(* once per operation as the code writes them once per operation.          *)
(* A client is {apiKey, fetch}; fetch is Undefined (the SDK's own) or the  *)
(* proxy URL createProxyFetch was given.                                   *)
(***************************************************************************)
Client(apiKey, fetch) == [apiKey |-> apiKey, fetch |-> fetch]

\* clientOptions = {apiKey}; if (proxyUrl) clientOptions.fetch = createProxyFetch(proxyUrl)
BuildClientExecute(apiKey, proxyUrl) ==
    Client(apiKey, IF ~Falsy(proxyUrl) THEN proxyUrl ELSE Undefined)

\* new OpenAI({ apiKey })
BuildClientStream(apiKey, proxyUrl) == Client(apiKey, Undefined)

\* new OpenAI({ apiKey }) in src/index.ts
BuildClientIndex(apiKey, proxyUrl) == Client(apiKey, Undefined)

\* options.model || request.model || 'gpt-4'
ModelOfExecute(options, request) == OrElse(options.model, OrElse(request.model, "gpt-4"))

ModelOfStream_requestFirst(options, request) ==
    OrElse(request.model, OrElse(options.model, "gpt-4"))

ModelOfStream(options, request) == OrElse(options.model, OrElse(request.model, "gpt-4"))

ModelOfIndex(options, request) == OrElse(options.model, OrElse(request.model, "gpt-4"))

MapMessagesExecute(messages) == [k \in 1..Len(messages) |-> MapMessageExecute(messages[k])]

MapMessagesStream(messages) == [k \in 1..Len(messages) |-> MapMessageStream(messages[k])]

MapMessagesIndex(messages) == [k \in 1..Len(messages) |-> MapMessageIndex(messages[k])]

\* The argument of client.chat.completions.create.  options.temperature and
\* options.maxTokens are forwarded as given and are left out.
VendorRequest(model, messages, response_format, stream, tools) ==
    [model |-> model, messages |-> messages, response_format |-> response_format,
     stream |-> stream, include_usage |-> stream, tools |-> tools]

VendorRequestExecute(request, options) ==
    VendorRequest(ModelOfExecute(options, request), MapMessagesExecute(request.messages),
                  request.responseFormat, FALSE, MapTools(request.tools))

VendorRequestStream(request, options) ==
    VendorRequest(ModelOfStream(options, request), MapMessagesStream(request.messages),
                  Undefined, TRUE, MapTools(request.tools))

VendorRequestIndex(request, options) ==
    VendorRequest(ModelOfIndex(options, request), MapMessagesIndex(request.messages),
                  request.responseFormat, FALSE, Absent)

(***************************************************************************)
(* Inbound mapping of a non-streaming response.                            *)
(***************************************************************************)
VendorToolCall(id, type, name, arguments) ==
    [id |-> id, type |-> type, name |-> name, arguments |-> arguments]

VendorResponse(choices, model, usage) == [choices |-> choices, model |-> model, usage |-> usage]

Choice(content, tool_calls) == [content |-> content, tool_calls |-> tool_calls]

\* A filter that lets every entry through.
IsFunction_any(tc) == tc.type = tc.type

IsFunction(tc) == tc.type = "function"

NeutralToolCall(tc) ==
    [id |-> tc.id, type |-> "function",
     function |-> [name |-> tc.name, arguments |-> tc.arguments]]

\* choice.message.tool_calls?.filter(tc => tc.type === 'function').map(...)
MapToolCalls(tool_calls) ==
    IF tool_calls.present
    THEN LET kept == SelectSeq(tool_calls.list, IsFunction)
         IN  List([k \in 1..Len(kept) |-> NeutralToolCall(kept[k])])
    ELSE Absent

\* response.usage ? {inputTokens, outputTokens} : undefined
MapUsage(usage) ==
    IF usage.present
    THEN [present |-> TRUE, inputTokens |-> usage.prompt_tokens,
          outputTokens |-> usage.completion_tokens]
    ELSE [present |-> FALSE, inputTokens |-> 0, outputTokens |-> 0]

\* The object execute returns, from choice = response.choices[0].
MapResponse(response) ==
    LET choice == response.choices[1]
    IN  [content   |-> OrElse(choice.content, ""),
         model     |-> response.model,
         usage     |-> MapUsage(response.usage),
         toolCalls |-> MapToolCalls(choice.tool_calls)]

(***************************************************************************)
(* The inputs the specifications draw from.                                *)
(***************************************************************************)
Kinds == {"execute", "executeStream", "executeIndex"}

Options(apiKey, model) == [apiKey |-> apiKey, model |-> model]

Request(model, messages, tools, responseFormat) ==
    [model |-> model, messages |-> messages, tools |-> tools,
     responseFormat |-> responseFormat]

GoodKey == SkKey(MinKeyLength, TRUE)

FacadeKeys ==
    {NoKey, EmptyKey, GoodKey, SkKey(MinKeyLength - 1, TRUE), SkKey(MinKeyLength + 4, FALSE),
     ForeignKey}

FacadeOptions == {Options(k, m) : k \in FacadeKeys, m \in {Undefined, "", "gpt-4o"}}

WeatherTool == ToolDefinition("get_weather", "Weather of a city", "{city: string}")

FacadeBodies ==
    { [messages |-> << Message("user", Str("Hello"), Undefined, Undefined, Absent) >>,
       tools    |-> Absent],
      [messages |-> << Message("developer", Arr(<< "a", "b" >>), "dev", Undefined, Absent),
                       Message("tool", Null, Undefined, Undefined, Absent) >>,
       tools    |-> List(<< >>)],
      [messages |-> << Message("assistant", Null, Undefined, Undefined,
                               List(<< VendorToolCall("call_1", "function", "get_weather", "{}") >>)),
                       Message("tool", Str("42"), Undefined, "call_1", Absent) >>,
       tools    |-> List(<< WeatherTool >>)] }

FacadeRequests ==
    {Request(m, b.messages, b.tools, "json_object") : m \in {"", "o3-mini"}, b \in FacadeBodies}

\* A third argument a caller may pass after options; neither operation
\* declares such a parameter.
ArgModels == {Undefined, "o1"}

Envs ==
    {[OPENAI_API_KEY |-> k, proxyUrl |-> p] :
        k \in {NoKey, SkKey(MinKeyLength + 5, TRUE), SkKey(3, TRUE)}, p \in {Undefined, "http://proxy:8080"}}

FacadeResponses ==
    { VendorResponse(<< Choice("Hi", Absent) >>, "gpt-4o-2024", VendorUsage(7, 3)),
      VendorResponse(<< Choice(Undefined,
                               List(<< VendorToolCall("call_1", "function", "get_weather", "{}"),
                                       VendorToolCall("call_2", "custom", "shell", "ls") >>)) >>,
                     "o3-mini-2025", NoUsage),
      VendorResponse(<< >>, "gpt-4", NoUsage) }

TextFragment == Fragment("choice", "Hel", << >>, "none", NoUsage)

\* the first fragment of a tool call as the vendor sends it: id, name, empty arguments
StartA0 == Fragment("choice", Undefined, << ToolCallFragment(0, "A", "f", "") >>, "none", NoUsage)

\* index 0 started again, under another id and without a name
StartB0 ==
    Fragment("choice", Undefined, << ToolCallFragment(0, "B", Undefined, Undefined) >>, "none",
             NoUsage)

\* a start that carries arguments, and a delta for index 0 behind it
StartC1 ==
    Fragment("choice", Undefined,
             << ToolCallFragment(1, "C", "g", "{"), ToolCallFragment(0, Undefined, Undefined, "z") >>,
             "none", NoUsage)

Delta0 ==
    Fragment("choice", Undefined, << ToolCallFragment(0, Undefined, Undefined, "{\"x\":") >>,
             "none", NoUsage)

Delta0b ==
    Fragment("choice", Undefined, << ToolCallFragment(0, Undefined, Undefined, "1}") >>, "none",
             NoUsage)

Delta1 ==
    Fragment("choice", Undefined, << ToolCallFragment(1, Undefined, Undefined, "y") >>, "none",
             NoUsage)

FinishToolCalls == Fragment("choice", Undefined, << >>, "tool_calls", NoUsage)

FinishToolCallsUsage == Fragment("choice", Undefined, << >>, "tool_calls", VendorUsage(9, 4))

\* the last fragment starts a tool call at index 1, with its arguments, and
\* reports the finish reason and the usage
FinishWithStart ==
    Fragment("choice", Undefined, << ToolCallFragment(1, "D", "h", "{}") >>, "tool_calls",
             VendorUsage(9, 4))

FinishStop == Fragment("choice", "lo", << >>, "stop", NoUsage)

UsageOnly == Fragment("nochoice", Undefined, << >>, "none", VendorUsage(12, 5))

Malformed == Fragment("malformed", Undefined, << >>, "none", NoUsage)

StreamFragments ==
    {TextFragment, StartA0, StartB0, StartC1, Delta0, Delta0b, Delta1, FinishToolCalls,
     FinishToolCallsUsage, FinishWithStart, FinishStop, UsageOnly, Malformed}

FacadeFragments == {TextFragment, StartC1, FinishToolCallsUsage, Malformed}

ConcFragments == {StartA0, StartB0, Delta0, FinishToolCalls}

StreamRequest ==
    Request("gpt-4o", << Message("user", Str("Hello"), Undefined, Undefined, Absent) >>,
            List(<< WeatherTool >>), Undefined)

StreamOptions ==
    {Options(GoodKey, Undefined), Options(NoKey, Undefined), Options(ForeignKey, Undefined)}

(***************************************************************************)
(* State.                                                                  *)
(***************************************************************************)
VARIABLES
    env,                  \* process.env.OPENAI_API_KEY and what getProxyUrl() returns
    pc,                   \* where each invocation stands
    kind,                 \* the operation invoked
    args,                 \* its arguments: request, options, and a third argument
    clients,              \* the client handles the invocation constructed
    vendorCalls,          \* the requests it passed to chat.completions.create
    toolCallsInProgress,  \* the Map of each streaming invocation
    consumed,             \* the fragments its stream has delivered so far
    out,                  \* the chunks it has yielded so far
    result,               \* the response execute returned
    thrown,               \* the error that left the operation
    responses,            \* what chat.completions.create resolved with (execute)
    supports              \* the call of supportsModel and what it gave

vars ==
    << env, pc, kind, args, clients, vendorCalls, responses, toolCallsInProgress, consumed,
       out, result, thrown, supports >>

(***************************************************************************)
(* supportsModel.  A model identifier is the sequence of its characters,   *)
(* so that startsWith is a test on its first elements.                     *)
(***************************************************************************)
MaxModelLen == 3

ModelId(chars) == [present |-> TRUE, chars |-> chars]
NoModelId == [present |-> FALSE, chars |-> << >>]

\* !model : undefined and the empty string
NotModel(model) == ~model.present \/ model.chars = << >>

\* String.prototype.startsWith
startsWith(chars, prefix) ==
    Len(chars) >= Len(prefix) /\ SubSeq(chars, 1, Len(prefix)) = prefix

\* supportsModel without its first line: startsWith is then called on
\* whatever was passed.
supportsModel_unguarded(model) ==
    IF ~model.present
    THEN [returned |-> FALSE, threw |-> TRUE]
    ELSE [returned |-> \/ startsWith(model.chars, << "g", "p", "t" >>)
                       \/ startsWith(model.chars, << "o", "1" >>)
                       \/ startsWith(model.chars, << "o", "3" >>)
                       \/ startsWith(model.chars, << "o", "4" >>),
          threw |-> FALSE]

supportsModel(model) ==
    IF NotModel(model)
    THEN [returned |-> TRUE, threw |-> FALSE]
    ELSE [returned |-> \/ startsWith(model.chars, << "g", "p", "t" >>)
                       \/ startsWith(model.chars, << "o", "1" >>)
                       \/ startsWith(model.chars, << "o", "3" >>)
                       \/ startsWith(model.chars, << "o", "4" >>),
          threw |-> FALSE]

\* No call of supportsModel has been made.
NoSupportsCall == [called |-> FALSE, model |-> NoModelId, returned |-> FALSE, threw |-> FALSE]

NoArgs == [request |-> Request("", << >>, Absent, Undefined),
           options |-> Options(NoKey, Undefined), model |-> Undefined]

InitCalls ==
    /\ pc = [c \in Calls |-> "NotStarted"]
    /\ kind = [c \in Calls |-> "none"]
    /\ args = [c \in Calls |-> NoArgs]
    /\ clients = [c \in Calls |-> << >>]
    /\ vendorCalls = [c \in Calls |-> << >>]
    /\ responses = [c \in Calls |-> << >>]
    /\ toolCallsInProgress = [c \in Calls |-> EmptyMap]
    /\ consumed = [c \in Calls |-> << >>]
    /\ out = [c \in Calls |-> << >>]
    /\ result = [c \in Calls |-> << >>]
    /\ thrown = [c \in Calls |-> << >>]

\* const apiKey = options.apiKey || process.env.OPENAI_API_KEY
ApiKeyOf(c) == ResolveKey(args[c].options.apiKey, env.OPENAI_API_KEY)

\* const toolCallsInProgress = new Map(): the Map invocation c works on is
\* the one it created itself.
MapOf_shared(c) == 1

MapOf(c) == c

BuildClient(k, apiKey, proxyUrl) ==
    CASE k = "execute"       -> BuildClientExecute(apiKey, proxyUrl)
      [] k = "executeStream" -> BuildClientStream(apiKey, proxyUrl)
      [] k = "executeIndex"  -> BuildClientIndex(apiKey, proxyUrl)

VendorRequestOf(k, request, options) ==
    CASE k = "execute"       -> VendorRequestExecute(request, options)
      [] k = "executeStream" -> VendorRequestStream(request, options)
      [] k = "executeIndex"  -> VendorRequestIndex(request, options)

Fail(c, error) ==
    /\ pc' = [pc EXCEPT ![c] = "Failed"]
    /\ thrown' = [thrown EXCEPT ![c] = << error >>]

(***************************************************************************)
(* Actions.                                                                *)
(***************************************************************************)
\* The operation is entered (for executeStream: the first next() of the
\* generator) and runs its credential checks, which precede the try block.
Invoke(c, K, R, O, M) ==
    /\ pc[c] = "NotStarted"
    /\ \E k \in K, r \in R, o \in O, m \in M :
          LET check == CredentialCheck(ResolveKey(o.apiKey, env.OPENAI_API_KEY))
          IN  /\ kind' = [kind EXCEPT ![c] = k]
              /\ args' = [args EXCEPT ![c] = [request |-> r, options |-> o, model |-> m]]
              /\ IF check = "ok"
                 THEN pc' = [pc EXCEPT ![c] = "Validated"] /\ UNCHANGED thrown
                 ELSE Fail(c, CredentialError(check))
    /\ UNCHANGED << env, supports, responses, clients, vendorCalls, toolCallsInProgress, consumed, out, result >>

\* The try block up to the call of chat.completions.create.  The client
\* constructor (or createProxyFetch) may throw, and so may the mapping of a
\* request that is not what its type says.
Setup(c) ==
    /\ pc[c] = "Validated"
    /\ \E fault \in {"none", "client", "mapping"} :
          LET client == BuildClient(kind[c], ApiKeyOf(c), env.proxyUrl)
          IN  CASE fault = "client" ->
                     /\ Fail(c, Rethrow("ClientError"))
                     /\ UNCHANGED << clients, vendorCalls >>
                [] fault = "mapping" ->
                     /\ clients' = [clients EXCEPT ![c] = Append(@, client)]
                     /\ Fail(c, Rethrow("TypeError"))
                     /\ UNCHANGED vendorCalls
                [] fault = "none" ->
                     /\ clients' = [clients EXCEPT ![c] = Append(@, client)]
                     /\ vendorCalls' =
                          [vendorCalls EXCEPT
                             ![c] = Append(@, VendorRequestOf(kind[c], args[c].request,
                                                              args[c].options))]
                     /\ pc' = [pc EXCEPT ![c] = "Awaiting"]
                     /\ UNCHANGED thrown
    /\ UNCHANGED << env, supports, responses, kind, args, toolCallsInProgress, consumed, out, result >>

\* The vendor call resolves: execute maps the response (a response without
\* choices makes choice.message throw); executeStream creates its Map and
\* starts to iterate.
VendorResolve(c, Responses) ==
    /\ pc[c] = "Awaiting"
    /\ IF kind[c] = "executeStream"
       THEN /\ pc' = [pc EXCEPT ![c] = "Streaming"]
            /\ toolCallsInProgress' = [toolCallsInProgress EXCEPT ![MapOf(c)] = EmptyMap]
            /\ UNCHANGED << responses, result, thrown >>
       ELSE /\ \E response \in Responses :
                  /\ responses' = [responses EXCEPT ![c] = << response >>]
                  /\ IF response.choices = << >>
                     THEN Fail(c, Rethrow("TypeError")) /\ UNCHANGED result
                     ELSE /\ result' = [result EXCEPT ![c] = << MapResponse(response) >>]
                          /\ pc' = [pc EXCEPT ![c] = "Done"]
                          /\ UNCHANGED thrown
            /\ UNCHANGED toolCallsInProgress
    /\ UNCHANGED << env, supports, kind, args, clients, vendorCalls, consumed, out >>

\* The vendor call rejects.
VendorReject(c) ==
    /\ pc[c] = "Awaiting"
    /\ Fail(c, Rethrow("APIError"))
    /\ UNCHANGED << env, supports, responses, kind, args, clients, vendorCalls, toolCallsInProgress, consumed, out,
                    result >>

\* The stream delivers a fragment and the loop body runs on it.
NextFragment(c, Fragments, max) ==
    /\ pc[c] = "Streaming"
    /\ Len(consumed[c]) < max
    /\ \E frag \in Fragments :
          LET r == ProcessFragment(toolCallsInProgress[MapOf(c)], frag)
          IN  /\ consumed' = [consumed EXCEPT ![c] = Append(@, frag)]
              /\ IF r.threw
                 THEN /\ Fail(c, Rethrow("TypeError"))
                      /\ UNCHANGED << toolCallsInProgress, out >>
                 ELSE /\ toolCallsInProgress' =
                           [toolCallsInProgress EXCEPT ![MapOf(c)] = r.map]
                      /\ out' = [out EXCEPT ![c] = @ \o r.chunks]
                      /\ UNCHANGED << pc, thrown >>
    /\ UNCHANGED << env, supports, responses, kind, args, clients, vendorCalls, result >>

\* The stream is exhausted: yield { type: 'done' } and return.
StreamEnd_silent(c) ==
    /\ pc[c] = "Streaming"
    /\ pc' = [pc EXCEPT ![c] = "Done"]
    /\ UNCHANGED << env, supports, responses, kind, args, clients, vendorCalls, toolCallsInProgress, consumed, out,
                    result, thrown >>

StreamEnd(c) ==
    /\ pc[c] = "Streaming"
    /\ out' = [out EXCEPT ![c] = Append(@, DoneChunk)]
    /\ pc' = [pc EXCEPT ![c] = "Done"]
    /\ UNCHANGED << env, supports, responses, kind, args, clients, vendorCalls, toolCallsInProgress, consumed,
                    result, thrown >>

\* The stream's iterator rejects instead of delivering a fragment.
StreamError_done(c) ==
    /\ pc[c] = "Streaming"
    /\ out' = [out EXCEPT ![c] = Append(@, DoneChunk)]
    /\ Fail(c, Rethrow("StreamError"))
    /\ UNCHANGED << env, supports, responses, kind, args, clients, vendorCalls, toolCallsInProgress, consumed,
                    result >>

StreamError(c) ==
    /\ pc[c] = "Streaming"
    /\ Fail(c, Rethrow("StreamError"))
    /\ UNCHANGED << env, supports, responses, kind, args, clients, vendorCalls, toolCallsInProgress, consumed, out,
                    result >>

(***************************************************************************)
(* Spec: one invocation of any operation, on any request, options and      *)
(* environment.                                                            *)
(***************************************************************************)
Init == env \in Envs /\ InitCalls /\ supports = NoSupportsCall

Next ==
    \E c \in {1} :
       \/ Invoke(c, Kinds, FacadeRequests, FacadeOptions, ArgModels)
       \/ Setup(c)
       \/ VendorResolve(c, FacadeResponses)
       \/ VendorReject(c)
       \/ NextFragment(c, FacadeFragments, MaxFacadeFragments)
       \/ StreamEnd(c)
       \/ StreamError(c)

Spec == Init /\ [][Next]_vars

(***************************************************************************)
(* SpecStream: one executeStream, on every fragment sequence of up to       *)
(* MaxFragments fragments.                                                 *)
(***************************************************************************)
StreamEnv == [OPENAI_API_KEY |-> NoKey, proxyUrl |-> Undefined]

InitStream == env = StreamEnv /\ InitCalls /\ supports = NoSupportsCall

NextStream ==
    \E c \in {1} :
       \/ Invoke(c, {"executeStream"}, {StreamRequest}, StreamOptions, {Undefined})
       \/ Setup(c)
       \/ VendorResolve(c, FacadeResponses)
       \/ VendorReject(c)
       \/ NextFragment(c, StreamFragments, MaxFragments)
       \/ StreamEnd(c)
       \/ StreamError(c)

SpecStream == InitStream /\ [][NextStream]_vars

(***************************************************************************)
(* SpecConc: two executeStream invocations whose steps interleave.         *)
(***************************************************************************)
NextConc ==
    \E c \in Calls :
       \/ Invoke(c, {"executeStream"}, {StreamRequest}, StreamOptions, {Undefined})
       \/ Setup(c)
       \/ VendorResolve(c, FacadeResponses)
       \/ VendorReject(c)
       \/ NextFragment(c, ConcFragments, MaxConcFragments)
       \/ StreamEnd(c)
       \/ StreamError(c)

SpecConc == InitStream /\ [][NextConc]_vars

(***************************************************************************)
(* Properties of the stream reassembly (SpecStream).                       *)
(***************************************************************************)
Streams == {c \in Calls : kind[c] = "executeStream"}

Positions(seq, type) == {k \in 1..Len(seq) : seq[k].type = type}

HasType(seq, type) == Positions(seq, type) # {}

\* C1: a stream that was consumed to its end without an error (the
\* invocation is Done) has yielded exactly one 'done' chunk, and that chunk
\* is the last one; a stream that has not ended has yielded none.
C1_ExactlyOneDoneLast ==
    \A c \in Streams :
       IF pc[c] = "Done"
       THEN Len(out[c]) >= 1 /\ Positions(out[c], "done") = {Len(out[c])}
       ELSE Positions(out[c], "done") = {}

C1_Witness ==
    /\ pc[1] = "Done"
    /\ Len(consumed[1]) = MaxFragments
    /\ HasType(out[1], "text") /\ HasType(out[1], "tool_call_end") /\ HasType(out[1], "usage")
    /\ Len(out[1]) >= 5

\* C2: in the chunks yielded so far (hence in every prefix), a
\* tool_call_delta or tool_call_end with index i has a tool_call_start with
\* index i before it, whatever fragments the vendor sent.
C2_StartPrecedes ==
    \A c \in Streams :
       \A j \in 1..Len(out[c]) :
          out[c][j].type \in {"tool_call_delta", "tool_call_end"} =>
             \E k \in 1..(j - 1) :
                /\ out[c][k].type = "tool_call_start"
                /\ out[c][k].toolCall.index = out[c][j].toolCall.index

\* a delta for index 1 came before anything started index 1, and a later
\* delta for index 1 was yielded after its start
C2_Witness ==
    /\ Len(consumed[1]) >= 3
    /\ consumed[1][1] = Delta1
    /\ \E j \in 1..Len(out[1]) :
          out[1][j].type = "tool_call_delta" /\ out[1][j].toolCall.index = 1
    /\ HasType(out[1], "tool_call_end")

\* The fragments C3 is about.
IsStartOnly(frag) ==
    /\ frag.shape = "choice" /\ Falsy(frag.content) /\ frag.finish_reason = "none"
    /\ ~frag.usage.present /\ Len(frag.tool_calls) = 1
    /\ frag.tool_calls[1].index = 0 /\ ~Falsy(frag.tool_calls[1].id)
    /\ Falsy(frag.tool_calls[1].arguments)

IsDeltaOnly(frag) ==
    /\ frag.shape = "choice" /\ Falsy(frag.content) /\ frag.finish_reason = "none"
    /\ ~frag.usage.present /\ Len(frag.tool_calls) = 1
    /\ frag.tool_calls[1].index = 0 /\ Falsy(frag.tool_calls[1].id)
    /\ ~Falsy(frag.tool_calls[1].arguments)

IsFinishOnly(frag) ==
    /\ frag.shape = "choice" /\ Falsy(frag.content) /\ frag.finish_reason = "tool_calls"
    /\ ~frag.usage.present /\ frag.tool_calls = << >>

IsSingleToolCallStream(frags) ==
    /\ Len(frags) >= 2
    /\ IsStartOnly(frags[1])
    /\ \A k \in 2..(Len(frags) - 1) : IsDeltaOnly(frags[k])
    /\ IsFinishOnly(frags[Len(frags)])

\* C3: one fragment with a fresh id at index 0, then k >= 0 fragments each
\* with a non-empty arguments delta at index 0, then finish_reason =
\* tool_calls, yields exactly tool_call_start, one tool_call_delta per delta
\* in the order received and carrying only that delta, tool_call_end, done.
C3_SingleToolCallChunks ==
    \A c \in Streams :
       (pc[c] = "Done" /\ IsSingleToolCallStream(consumed[c])) =>
          LET n  == Len(consumed[c])
              tc == consumed[c][1].tool_calls[1]
          IN  /\ Len(out[c]) = n + 1
              /\ out[c][1].type = "tool_call_start"
              /\ out[c][1].toolCall.id = tc.id /\ out[c][1].toolCall.index = 0
              /\ \A k \in 2..(n - 1) :
                    /\ out[c][k].type = "tool_call_delta"
                    /\ out[c][k].toolCall.index = 0
                    /\ out[c][k].toolCall.argumentsDelta = consumed[c][k].tool_calls[1].arguments
              /\ out[c][n].type = "tool_call_end"
              /\ out[c][n].toolCall.id = tc.id /\ out[c][n].toolCall.index = 0
              /\ out[c][n + 1].type = "done"

C3_Witness ==
    /\ pc[1] = "Done"
    /\ consumed[1] = << StartA0, Delta0, Delta0b, FinishToolCalls >>
    /\ out[1] = << StartChunk("A", 0, "f"), DeltaChunk(0, "{\"x\":"), DeltaChunk(0, "1}"),
                   EndChunk("A", 0, "f"), DoneChunk >>

\* A fragment all of whose tool-call fragments carry an arguments delta, no
\* id, and an index the map has no entry for.
IsOrphanDeltas(frag, map) ==
    /\ frag.shape = "choice" /\ Falsy(frag.content) /\ frag.finish_reason = "none"
    /\ ~frag.usage.present /\ Len(frag.tool_calls) >= 1
    /\ \A k \in 1..Len(frag.tool_calls) :
          /\ Falsy(frag.tool_calls[k].id)
          /\ ~Falsy(frag.tool_calls[k].arguments)
          /\ ~MapHas(map, frag.tool_calls[k].index)

\* C4: the step that consumes an arguments delta without id at an index
\* with no in-progress entry yields no chunk, leaves the map as it is and
\* raises nothing: the invocation goes on streaming.
C4_OrphanDeltaDropped ==
    [][\A c \in Streams :
          ( /\ pc[c] = "Streaming"
            /\ Len(consumed'[c]) = Len(consumed[c]) + 1
            /\ IsOrphanDeltas(consumed'[c][Len(consumed'[c])], toolCallsInProgress[c]) )
          => /\ out'[c] = out[c]
             /\ toolCallsInProgress'[c] = toolCallsInProgress[c]
             /\ pc'[c] = "Streaming"
             /\ thrown'[c] = << >>]_vars

\* the delta was dropped and the fragments after it were processed
C4_Witness ==
    /\ pc[1] = "Done"
    /\ consumed[1] = << Delta0, StartA0, Delta0, FinishToolCalls >>
    /\ out[1] = << StartChunk("A", 0, "f"), DeltaChunk(0, "{\"x\":"), EndChunk("A", 0, "f"),
                   DoneChunk >>

(***************************************************************************)
(* Properties of the facade (Spec).                                        *)
(***************************************************************************)
Invoked == {c \in Calls : kind[c] # "none"}

\* options.apiKey absent or empty, and no key in the environment
Unresolvable(c) == KeyFalsy(args[c].options.apiKey) /\ KeyFalsy(env.OPENAI_API_KEY)

FailedWith(c, which) ==
    /\ pc[c] = "Failed"
    /\ thrown[c] = << CredentialError(which) >>
    /\ clients[c] = << >>
    /\ vendorCalls[c] = << >>

\* C5: an invocation whose credential cannot be resolved, or whose resolved
\* credential fails the shape validation, has failed with the credential
\* error, has constructed no client and has made no vendor call, and an
\* invocation that threw a credential error never has a client or a call.
C5_CredentialFailsFast ==
    \A c \in Invoked :
       /\ Unresolvable(c) => FailedWith(c, "MissingCredential")
       /\ (~Unresolvable(c) /\ ~validator(ApiKeyOf(c))) => FailedWith(c, "InvalidCredential")
       /\ (thrown[c] # << >> /\ thrown[c][1].kind \in {"MissingCredential", "InvalidCredential"})
             => clients[c] = << >> /\ vendorCalls[c] = << >>

C5_Witness ==
    /\ kind[1] = "executeStream"
    /\ args[1].options.apiKey = EmptyKey
    /\ env.OPENAI_API_KEY = SkKey(3, TRUE)
    /\ FailedWith(1, "InvalidCredential")

\* C6: once the credential has passed validation, whatever error leaves the
\* operation is the result of createSafeError(error, {provider: 'openai'}).
C6_OnlySafeErrors ==
    \A c \in Invoked :
       validator(ApiKeyOf(c)) =>
          /\ pc[c] = "Failed" <=> thrown[c] # << >>
          /\ thrown[c] # << >> => thrown[c] = << createSafeError(thrown[c][1].cause, "openai") >>

\* the fragment sequence failed after chunks had been yielded
C6_Witness ==
    /\ kind[1] = "executeStream"
    /\ pc[1] = "Failed"
    /\ consumed[1] = << StartC1, Malformed >>
    /\ Len(out[1]) = 2
    /\ thrown[1] = << createSafeError("TypeError", "openai") >>

\* The states of a streaming call as the state machine names them.
Phase(p) == IF p \in {"NotStarted", "Validated", "Awaiting"} THEN "NotStarted" ELSE p

StreamTransitions ==
    { << "NotStarted", "NotStarted" >>, << "NotStarted", "Streaming" >>,
      << "NotStarted", "Failed" >>, << "Streaming", "Streaming" >>,
      << "Streaming", "Done" >>, << "Streaming", "Failed" >>,
      << "Done", "Done" >>, << "Failed", "Failed" >> }

\* C7: a streaming call moves NotStarted -> Streaming -> Done, or from
\* NotStarted or Streaming to Failed when an error is raised; the step that
\* raises yields no chunk, nothing is yielded after Failed or Done, and a
\* call has yielded 'done' exactly when it is Done and has thrown exactly
\* when it is Failed, never both.
C7_StreamStateMachine ==
    [][\A c \in Calls :
          kind'[c] = "executeStream" =>
             /\ << Phase(pc[c]), Phase(pc'[c]) >> \in StreamTransitions
             /\ pc[c] \in {"Done", "Failed"} => out'[c] = out[c] /\ thrown'[c] = thrown[c]
             /\ pc'[c] = "Failed" => out'[c] = out[c]
             /\ pc'[c] = "Failed" <=> thrown'[c] # << >>
             /\ pc'[c] = "Done" <=> HasType(out'[c], "done")
             /\ Phase(pc'[c]) = "NotStarted" => out'[c] = << >>]_vars

C7_Witness ==
    /\ pc[1] = "Failed"
    /\ thrown[1] = << createSafeError("StreamError", "openai") >>
    /\ Len(consumed[1]) = 2
    /\ Len(out[1]) >= 3
    /\ ~HasType(out[1], "done")

(***************************************************************************)
(* Isolation of concurrent streams (SpecConc).                             *)
(***************************************************************************)
\* The map and the chunks of the for-await loop run on `frags` by itself.
RECURSIVE RunAlone(_, _)
RunAlone(map, frags) ==
    IF frags = << >>
    THEN [map |-> map, chunks |-> << >>]
    ELSE LET r == ProcessFragment(map, Head(frags))
         IN  IF r.threw
             THEN [map |-> map, chunks |-> << >>]
             ELSE LET t == RunAlone(r.map, Tail(frags))
                  IN  [map |-> t.map, chunks |-> r.chunks \o t.chunks]

\* C8: however the steps of two streaming invocations interleave, each has
\* yielded the chunks, and holds the map, it would have when run alone on
\* the fragments it has consumed.
C8_StreamsIsolated ==
    \A c \in Calls :
       LET alone == RunAlone(EmptyMap, consumed[c])
       IN  /\ out[c] = alone.chunks \o (IF pc[c] = "Done" THEN << DoneChunk >> ELSE << >>)
           /\ toolCallsInProgress[c] = alone.map

\* both streams are under way on the same index with different tool calls
C8_Witness ==
    /\ pc[1] = "Streaming" /\ pc[2] = "Done"
    /\ consumed[1] = << StartA0, Delta0 >>
    /\ consumed[2] = << Delta0, StartB0, FinishToolCalls >>
    /\ out[2] = << StartChunk("B", 0, Undefined), EndChunk("B", 0, ""), DoneChunk >>

(***************************************************************************)
(* Setup of executeStream against setup of execute (Spec).                 *)
(***************************************************************************)
\* C9: executeStream performs the setup of execute: the client handle
\* execute would construct (through the proxy when one is configured), the
\* same effective model, the same outbound messages and tools.
C9_StreamSetupAsExecute ==
    \A c \in Invoked :
       (kind[c] = "executeStream" /\ vendorCalls[c] # << >>) =>
          /\ clients[c] = << BuildClientExecute(ApiKeyOf(c), env.proxyUrl) >>
          /\ vendorCalls[c][1].model = ModelOfExecute(args[c].options, args[c].request)
          /\ vendorCalls[c][1].messages = MapMessagesExecute(args[c].request.messages)
          /\ vendorCalls[c][1].tools = MapTools(args[c].request.tools)

\* What holds of the setup of executeStream: all of the above but the proxy.
C9_StreamSetupButProxy ==
    \A c \in Invoked :
       (kind[c] = "executeStream" /\ vendorCalls[c] # << >>) =>
          /\ clients[c] = << Client(ApiKeyOf(c), Undefined) >>
          /\ vendorCalls[c][1].model = ModelOfExecute(args[c].options, args[c].request)
          /\ vendorCalls[c][1].messages = MapMessagesExecute(args[c].request.messages)
          /\ vendorCalls[c][1].tools = MapTools(args[c].request.tools)

(***************************************************************************)
(* The effective model (Spec).                                             *)
(***************************************************************************)
IsGiven(s) == s \notin {Undefined, ""}

\* C10 as stated: an explicit model argument of the call comes first, then
\* options.model, then the request's model, then the fallback.
C10_ArgumentFirst ==
    \A c \in Invoked :
       vendorCalls[c] # << >> =>
          vendorCalls[c][1].model =
             IF IsGiven(args[c].model) THEN args[c].model
             ELSE IF IsGiven(args[c].options.model) THEN args[c].options.model
             ELSE IF IsGiven(args[c].request.model) THEN args[c].request.model
             ELSE "gpt-4"

\* C10 (amended): the model sent is options.model when given (a non-empty
\* string), else the request's model when given, else 'gpt-4'; the
\* operations take no model argument, and one passed after options is not
\* read.
C10_ModelPrecedence ==
    \A c \in Invoked :
       vendorCalls[c] # << >> =>
          vendorCalls[c][1].model =
             IF IsGiven(args[c].options.model) THEN args[c].options.model
             ELSE IF IsGiven(args[c].request.model) THEN args[c].request.model
             ELSE "gpt-4"

C10_Witness ==
    /\ kind[1] = "executeStream"
    /\ args[1].model = "o1"
    /\ args[1].options.model = ""
    /\ args[1].request.model = "o3-mini"
    /\ vendorCalls[1] # << >>
    /\ vendorCalls[1][1].model = "o3-mini"

(***************************************************************************)
(* SpecMap: one invocation with valid credentials, on every shape of       *)
(* message and of vendor response.                                         *)
(***************************************************************************)
MapContents == {Str("Hello"), Arr(<< "a", "b" >>), Arr(<< >>), Null}

MapToolCallLists ==
    {Absent, List(<< >>), List(<< VendorToolCall("call_1", "function", "get_weather", "{}") >>)}

MapMessages ==
    {Message(role, content, IF role = "developer" THEN "dev" ELSE Undefined,
             IF role = "tool" THEN id ELSE Undefined, tool_calls) :
        role \in {"user", "assistant", "system", "developer", "tool"},
        content \in MapContents, tool_calls \in MapToolCallLists,
        id \in {Undefined, "call_1"}}

MapRequests ==
    {Request("gpt-4o", << m >>, Absent, Undefined) : m \in MapMessages}
      \cup {Request("gpt-4o",
                    << Message("developer", Null, Undefined, Undefined, Absent),
                       Message("assistant", Null, Undefined, Undefined, List(<< >>)),
                       Message("user", Arr(<< "a", "b" >>), Undefined, Undefined, Absent) >>,
                    List(<< WeatherTool >>), Undefined)}

FunctionCall1 == VendorToolCall("call_1", "function", "get_weather", "{\"city\":\"Oslo\"}")

FunctionCall2 == VendorToolCall("call_2", "function", "get_time", "{}")

CustomCall == VendorToolCall("call_3", "custom", "shell", "ls")

MapVendorToolCalls ==
    {Absent, List(<< >>), List(<< CustomCall >>), List(<< FunctionCall1 >>),
     List(<< FunctionCall1, CustomCall, FunctionCall2 >>),
     List(<< CustomCall, FunctionCall2, FunctionCall1 >>),
     List(<< FunctionCall2, FunctionCall2 >>)}

MapResponses ==
    {VendorResponse(<< Choice(content, tcs) >>, "gpt-4o-2024", usage) :
        content \in {"Hi", Undefined}, tcs \in MapVendorToolCalls,
        usage \in {NoUsage, VendorUsage(7, 3)}}
      \cup {VendorResponse(<< >>, "gpt-4o-2024", NoUsage)}

NextMap ==
    \E c \in {1} :
       \/ Invoke(c, Kinds, MapRequests, {Options(GoodKey, Undefined)}, {Undefined})
       \/ Setup(c)
       \/ VendorResolve(c, MapResponses)
       \/ VendorReject(c)
       \/ NextFragment(c, FacadeFragments, MaxFacadeFragments)
       \/ StreamEnd(c)
       \/ StreamError(c)

SpecMap == InitStream /\ [][NextMap]_vars

(***************************************************************************)
(* Properties of the outbound mapping (SpecMap).                           *)
(***************************************************************************)
\* The JSON text of the content values that are not strings.
JSONTextOf(content) ==
    CASE content = Null                 -> "null"
      [] content = Arr(<< >>)           -> "[]"
      [] content = Arr(<< "a", "b" >>)  -> "[\"a\",\"b\"]"

\* The messages an invocation was given, each with the vendor message sent
\* for it.
Sent(c) ==
    IF vendorCalls[c] = << >> THEN {}
    ELSE {[neutral |-> args[c].request.messages[k], vendor |-> vendorCalls[c][1].messages[k]] :
             k \in 1..Len(args[c].request.messages)}

\* C11 as stated: a developer message is sent with role 'system' and its
\* content unchanged, whatever the content is.
C11_DeveloperContentUnchanged ==
    \A c \in Invoked :
       \A m \in Sent(c) :
          m.neutral.role = "developer" =>
             m.vendor.role = "system" /\ m.vendor.content = m.neutral.content

\* C11 (amended): a developer message is sent with role 'system'; its
\* content is unchanged when it is a text string, and is the JSON text of
\* the value when it is a sequence of text or null.
C11_DeveloperToSystem ==
    \A c \in Invoked :
       /\ Len(vendorCalls[c]) = 1 => Len(vendorCalls[c][1].messages) = Len(args[c].request.messages)
       /\ \A m \in Sent(c) :
             m.neutral.role = "developer" =>
                /\ m.vendor.role = "system"
                /\ m.vendor.name = m.neutral.name
                /\ m.neutral.content.t = "string" => m.vendor.content = m.neutral.content
                /\ m.neutral.content.t # "string" =>
                      m.vendor.content = Str(JSONTextOf(m.neutral.content))

C11_Witness ==
    /\ kind[1] = "execute"
    /\ \E m \in Sent(1) :
          /\ m.neutral.role = "developer"
          /\ m.neutral.content = Arr(<< "a", "b" >>)
          /\ m.neutral.tool_calls.present
          /\ m.vendor.role = "system"
          /\ m.vendor.content = Str("[\"a\",\"b\"]")

\* C12 as stated: a message whose content is not a text string, of any role
\* and with or without tool calls, is sent with the JSON text of its content.
C12_NonTextContentIsJSON ==
    \A c \in Invoked :
       \A m \in Sent(c) :
          m.neutral.content.t # "string" =>
             m.vendor.content = Str(JSONTextOf(m.neutral.content))

\* An assistant message that carries a tool_calls value (an empty list
\* included) takes the branch that forwards content as it is.
IsAssistantWithToolCalls(msg) == msg.role = "assistant" /\ msg.tool_calls.present

\* C12 (amended): a message whose content is not a text string is sent with
\* the JSON text of its content, except that execute and executeStream send
\* an assistant message carrying tool calls with its content as it is.
C12_NonTextContentCoerced ==
    \A c \in Invoked :
       \A m \in Sent(c) :
          m.neutral.content.t # "string" =>
             IF kind[c] \in {"execute", "executeStream"} /\ IsAssistantWithToolCalls(m.neutral)
             THEN m.vendor.content = m.neutral.content
             ELSE m.vendor.content = Str(JSONTextOf(m.neutral.content))

C12_Witness ==
    /\ kind[1] = "executeStream"
    /\ Len(args[1].request.messages) = 3
    /\ \E m \in Sent(1) :
          /\ IsAssistantWithToolCalls(m.neutral) /\ m.neutral.tool_calls.list = << >>
          /\ m.vendor.content = Null
    /\ \E m \in Sent(1) :
          /\ m.neutral.role = "user"
          /\ m.vendor.content = Str("[\"a\",\"b\"]")

(***************************************************************************)
(* SpecSupports: one call of supportsModel on a model identifier.          *)
(***************************************************************************)
ModelAlphabet == {"g", "p", "t", "o", "1", "3", "4", "c", "-"}

\* The identifiers the tests of supportsModel pass.
SampleModels ==
    {ModelId(<< "g", "p", "t", "-", "4" >>),
     ModelId(<< "g", "p", "t", "-", "4", "o" >>),
     ModelId(<< "g", "p", "t", "-", "4", "-", "t", "u", "r", "b", "o" >>),
     ModelId(<< "g", "p", "t", "-", "3", ".", "5", "-", "t", "u", "r", "b", "o" >>),
     ModelId(<< "o", "1", "-", "p", "r", "e", "v", "i", "e", "w" >>),
     ModelId(<< "o", "1", "-", "m", "i", "n", "i" >>),
     ModelId(<< "o", "3", "-", "m", "i", "n", "i" >>),
     ModelId(<< "o", "4", "-", "m", "i", "n", "i" >>),
     ModelId(<< "c", "l", "a", "u", "d", "e", "-", "3", "-", "o", "p", "u", "s", "-", "2", "0", "2", "4", "0", "2", "2", "9" >>),
     ModelId(<< "c", "l", "a", "u", "d", "e", "-", "3", "-", "s", "o", "n", "n", "e", "t", "-", "2", "0", "2", "4", "0", "2", "2", "9" >>),
     ModelId(<< "g", "e", "m", "i", "n", "i", "-", "1", ".", "5", "-", "p", "r", "o" >>),
     ModelId(<< "g", "e", "m", "i", "n", "i", "-", "1", ".", "5", "-", "f", "l", "a", "s", "h" >>)}

ModelIds ==
    {NoModelId}
      \cup {ModelId(chars) : chars \in UNION {[1..n -> ModelAlphabet] : n \in 0..MaxModelLen}}
      \cup SampleModels

InitSupports ==
    /\ env = StreamEnv
    /\ InitCalls
    /\ \E model \in ModelIds :
          supports = [called |-> FALSE, model |-> model, returned |-> FALSE, threw |-> FALSE]

SupportsModel ==
    /\ ~supports.called
    /\ LET r == supportsModel(supports.model)
       IN  supports' = [called |-> TRUE, model |-> supports.model,
                        returned |-> r.returned, threw |-> r.threw]
    /\ UNCHANGED << env, pc, kind, args, clients, vendorCalls, responses,
                    toolCallsInProgress, consumed, out, result, thrown >>

NextSupports == SupportsModel

SpecSupports == InitSupports /\ [][NextSupports]_vars

\* The identifier begins with gpt, o1, o3 or o4.
HasFamilyPrefix(chars) ==
    \/ Len(chars) >= 3 /\ chars[1] = "g" /\ chars[2] = "p" /\ chars[3] = "t"
    \/ Len(chars) >= 2 /\ chars[1] = "o" /\ chars[2] \in {"1", "3", "4"}

\* C15: supportsModel never throws; it returns true for an absent or empty
\* model and for every identifier that begins with gpt, o1, o3 or o4, and
\* false for every other identifier.
C15_SupportsModel ==
    supports.called =>
       /\ ~supports.threw
       /\ supports.returned =
             (\/ ~supports.model.present
              \/ Len(supports.model.chars) = 0
              \/ HasFamilyPrefix(supports.model.chars))

C15_Witness ==
    /\ supports.called
    /\ supports.model = ModelId(<< "c", "l", "a", "u", "d", "e", "-", "3", "-", "o", "p", "u", "s", "-", "2", "0", "2", "4", "0", "2", "2", "9" >>)
    /\ ~supports.returned /\ ~supports.threw

\* The calls of execute (either version) that returned, with what the vendor
\* call resolved with and what execute returned.
Returned ==
    {c \in Invoked : responses[c] # << >> /\ result[c] # << >>}

VendorToolCallsOf(c) == responses[c][1].choices[1].tool_calls

\* C13: when the vendor response has no tool call (tool_calls absent, empty,
\* or without a function entry), the neutral response has no toolCalls field.
C13_ZeroToolCallsAbsent ==
    \A c \in Returned :
       (\/ ~VendorToolCallsOf(c).present
        \/ \A k \in 1..Len(VendorToolCallsOf(c).list) :
              VendorToolCallsOf(c).list[k].type # "function")
          => ~result[c][1].toolCalls.present

\* The function entries of a vendor list, in order, in neutral form.
RECURSIVE FunctionEntries(_)
FunctionEntries(list) ==
    IF list = << >>
    THEN << >>
    ELSE LET tc == Head(list)
         IN  (IF tc.type = "function"
              THEN << [id |-> tc.id, type |-> "function",
                       function |-> [name |-> tc.name, arguments |-> tc.arguments]] >>
              ELSE << >>) \o FunctionEntries(Tail(list))

\* C14: the toolCalls of the neutral response are exactly the function
\* entries of the vendor's list, each as {id, type 'function', function:
\* {name, arguments}}, in the vendor's order.
C14_OnlyFunctionEntriesInOrder ==
    \A c \in Returned :
       VendorToolCallsOf(c).present =>
          result[c][1].toolCalls.list = FunctionEntries(VendorToolCallsOf(c).list)

C14_Witness ==
    /\ 1 \in Returned
    /\ VendorToolCallsOf(1) = List(<< CustomCall, FunctionCall2, FunctionCall1 >>)
    /\ result[1][1].toolCalls.present
    /\ Len(result[1][1].toolCalls.list) = 2
    /\ result[1][1].toolCalls.list[1].id = "call_2"
    /\ result[1][1].toolCalls.list[2].id = "call_1"

(***************************************************************************)
(* Properties of the end of tool calls (SpecStream).                       *)
(***************************************************************************)
\* The chunks a step added to the stream of c.
Yielded(c) == SubSeq(out'[c], Len(out[c]) + 1, Len(out'[c]))

\* The chunks of seq whose type is in types, in order.
OfTypes(seq, types) == SelectSeq(seq, LAMBDA chunk : chunk.type \in types)

\* C16: the step that consumes a fragment with finish_reason 'tool_calls'
\* yields one tool_call_end for every entry of the map, with the entry's id,
\* index and name, behind the start and delta chunks of the fragment and
\* before its usage chunk; the map holds after the step what it held when
\* the ends were yielded, and is the map of before the step when the
\* fragment carries no tool call.
C16_EndForEveryEntry ==
    [][\A c \in Streams :
          ( /\ pc[c] = "Streaming"
            /\ Len(consumed'[c]) = Len(consumed[c]) + 1
            /\ consumed'[c][Len(consumed'[c])].shape = "choice"
            /\ consumed'[c][Len(consumed'[c])].finish_reason = "tool_calls" )
          => LET frag  == consumed'[c][Len(consumed'[c])]
                 new   == Yielded(c)
                 map   == toolCallsInProgress'[c]
                 ends  == Positions(new, "tool_call_end")
                 first == Positions(new, "tool_call_start") \cup Positions(new, "tool_call_delta")
                 usage == Positions(new, "usage")
             IN  /\ pc'[c] = "Streaming"
                 /\ OfTypes(new, {"tool_call_end"}) =
                       [k \in 1..Len(map) |->
                          [type |-> "tool_call_end",
                           toolCall |-> [id |-> map[k].id, index |-> map[k].index,
                                         name |-> map[k].name]]]
                 /\ \A e \in ends : (\A f \in first : f < e) /\ (\A u \in usage : e < u)
                 /\ frag.tool_calls = << >> => map = toolCallsInProgress[c]
                 /\ \A k \in 1..Len(toolCallsInProgress[c]) :
                       \E j \in 1..Len(map) : map[j].index = toolCallsInProgress[c][k].index]_vars

\* two entries, one of them started by the finishing fragment itself
C16_Witness ==
    /\ pc[1] = "Streaming"
    /\ consumed[1] = << StartA0, Delta0, FinishWithStart >>
    /\ out[1] = << StartChunk("A", 0, "f"), DeltaChunk(0, "{\"x\":"),
                   StartChunk("D", 1, "h"), DeltaChunk(1, "{}"),
                   EndChunk("A", 0, "f"), EndChunk("D", 1, "h"), UsageChunk(9, 4) >>
    /\ Len(toolCallsInProgress[1]) = 2

\* The position of the last tool_call_start for index i among the first n
\* chunks of seq, 0 when there is none.
LastStart(seq, i, n) ==
    LET starts == {k \in 1..n : seq[k].type = "tool_call_start" /\ seq[k].toolCall.index = i}
    IN  IF starts = {} THEN 0 ELSE CHOOSE k \in starts : \A j \in starts : j <= k

\* The argument deltas for index i that seq holds behind position n, joined.
RECURSIVE DeltasAfter(_, _, _)
DeltasAfter(seq, i, n) ==
    IF n >= Len(seq)
    THEN ""
    ELSE (IF seq[n + 1].type = "tool_call_delta" /\ seq[n + 1].toolCall.index = i
          THEN seq[n + 1].toolCall.argumentsDelta
          ELSE "") \o DeltasAfter(seq, i, n + 1)

\* The tool-call fragments with an id among the fragments consumed.
RECURSIVE IdsConsumed(_)
IdsConsumed(frags) ==
    IF frags = << >>
    THEN << >>
    ELSE LET tcs == IF Head(frags).shape = "choice" THEN Head(frags).tool_calls ELSE << >>
         IN  SelectSeq(tcs, LAMBDA tc : tc.id \notin {Undefined, ""})
                \o IdsConsumed(Tail(frags))

\* C17: every tool-call fragment with an id yields a tool_call_start with its
\* id, index and name; the map has at most one entry per index, and the
\* entry at i has the id of the last start at i, its name (or ''), and for
\* arguments only the deltas yielded since that start; a tool_call_end for
\* i carries the id of the last start at i before it.
C17_StartRecreatesEntry ==
    \A c \in Streams :
       LET map    == toolCallsInProgress[c]
           ids    == IdsConsumed(consumed[c])
           starts == OfTypes(out[c], {"tool_call_start"})
       IN  /\ Len(starts) = Len(ids)
           /\ \A k \in 1..Len(ids) :
                 starts[k].toolCall =
                    [id |-> ids[k].id, index |-> ids[k].index, name |-> ids[k].name]
           /\ \A j, k \in 1..Len(map) : map[j].index = map[k].index => j = k
           /\ \A k \in 1..Len(map) :
                 LET n == LastStart(out[c], map[k].index, Len(out[c]))
                 IN  /\ n > 0
                     /\ map[k].id = out[c][n].toolCall.id
                     /\ map[k].name = (IF out[c][n].toolCall.name \in {Undefined, ""} THEN ""
                                       ELSE out[c][n].toolCall.name)
                     /\ map[k].arguments = DeltasAfter(out[c], map[k].index, n)
           /\ \A j \in Positions(out[c], "tool_call_end") :
                 LET n == LastStart(out[c], out[c][j].toolCall.index, j)
                 IN  n > 0 /\ out[c][j].toolCall.id = out[c][n].toolCall.id

\* index 0 was started as A, received arguments, and was started again as B
C17_Witness ==
    /\ consumed[1] = << StartA0, Delta0, StartB0, FinishToolCalls >>
    /\ toolCallsInProgress[1] = << [index |-> 0, id |-> "B", name |-> "", arguments |-> ""] >>
    /\ out[1] = << StartChunk("A", 0, "f"), DeltaChunk(0, "{\"x\":"),
                   StartChunk("B", 0, Undefined), EndChunk("B", 0, "") >>

\* The positions of seq holding a chunk of the type for tool call id at i.
PositionsOf(seq, type, id, i) ==
    {k \in Positions(seq, type) : seq[k].toolCall.id = id /\ seq[k].toolCall.index = i}

\* C18: no tool call is reported as ended more often than it was started:
\* for every id and index the stream holds at most as many tool_call_end
\* chunks as tool_call_start chunks.
C18_EndedAtMostOnce ==
    \A c \in Streams :
       \A e \in Positions(out[c], "tool_call_end") :
          LET id == out[c][e].toolCall.id
              i  == out[c][e].toolCall.index
          IN  Cardinality(PositionsOf(out[c], "tool_call_end", id, i))
                 <= Cardinality(PositionsOf(out[c], "tool_call_start", id, i))

\* C19: in a stream that reached 'done', every tool_call_start is followed
\* by a tool_call_end with the same id and index.
C19_EveryStartEnds ==
    \A c \in Streams :
       pc[c] = "Done" =>
          \A s \in Positions(out[c], "tool_call_start") :
             \E e \in PositionsOf(out[c], "tool_call_end", out[c][s].toolCall.id,
                                  out[c][s].toolCall.index) : s < e
====
